---- MODULE Spec2Model ----
(***************************************************************************)
(* Model of the US county population map repository:                       *)
(*   prepare_data.py  the preparation script (fetch, clean, derive, join,  *)
(*                    save), a straight-line program modelled one section  *)
(*                    per action;                                          *)
(*   app.py           the Streamlit script, re-run top to bottom on every  *)
(*                    widget interaction, with load_geojson under          *)
(*                    @st.cache_data.                                      *)
(*                                                                         *)
(* Text is a tuple of one-character strings, so that concatenation,        *)
(* slicing, parsing and formatting are computed.  A fractional number is   *)
(* the rational [num, den] in lowest terms; where the script computes in   *)
(* doubles (the rank, the colour ramp, round) the rational q stands for    *)
(* the double nearest to q, and the operators compute what the double      *)
(* arithmetic gives from the sign and size of its rounding errors.         *)
(***************************************************************************)
EXTENDS Integers, Sequences, FiniteSets, TLC

VARIABLES
    boundaryUpstream,  \* body the boundary URL serves when the fetch succeeds
    statsUpstream,     \* body the Census URL serves when the fetch succeeds
    pc,                \* position of the preparation script
    runs,              \* preparation runs started so far
    counties_geojson,  \* prepare_data.py: counties_geojson["features"]
    census_raw,        \* prepare_data.py: census_raw
    df,                \* prepare_data.py: the data frame, a tuple of rows
    value_lookup,      \* prepare_data.py: value_lookup
    geojsonFile,       \* data/us_counties_population.geojson on disk
    csvFile,           \* data/us_counties_population.csv on disk
    prevRun,           \* history: the two files when this run started, and as
                       \* the last completed run left them
    cache,             \* app.py: the st.cache_data entry of load_geojson()
    session,           \* app.py: per session, what its last script run did
    t,                 \* argument handed to population_color
    color              \* what population_color returned for t

vars == <<boundaryUpstream, statsUpstream, pc, runs, counties_geojson, census_raw,
          df, value_lookup, geojsonFile, csvFile, prevRun, cache, session, t, color>>

prepVars == <<pc, runs, counties_geojson, census_raw, df, value_lookup,
              geojsonFile, csvFile, prevRun>>
upstreamVars == <<boundaryUpstream, statsUpstream>>
appVars == <<cache, session>>
colorVars == <<t, color>>


(***************************************************************************)
(* Bounds of the model.                                                    *)
(***************************************************************************)
MaxRows == 3        \* data rows in the statistics response
MaxFeatures == 2    \* polygons in the boundary collection
MaxRuns == 2        \* preparation runs
MaxReruns == 2      \* widget interactions per session
GridBits == 6       \* the ramp is sampled at t = k / 2^GridBits
SampleRows == 6     \* and at the ranks k / (2n) of frames of n <= SampleRows rows

(***************************************************************************)
(* Text and numbers.                                                       *)
(***************************************************************************)
RECURSIVE Gcd(_, _)
Gcd(a, b) == IF b = 0 THEN a ELSE Gcd(b, a % b)

Abs(n) == IF n < 0 THEN 0 - n ELSE n

\* The rational n/d (d > 0) in lowest terms.
Rat(n, d) == [num |-> n \div Gcd(Abs(n), d), den |-> d \div Gcd(Abs(n), d)]

RatLess(a, b) == a.num * b.den < b.num * a.den

RECURSIVE Pow(_, _)
Pow(b, e) == IF e = 0 THEN 1 ELSE b * Pow(b, e - 1)

\* A cell of the population column: NaN, plus or minus infinity, or a
\* finite number.
NaN == [nan |-> TRUE]
Inf(sign) == [nan |-> FALSE, inf |-> sign]
Num(n, d) == [nan |-> FALSE, inf |-> 0, num |-> Rat(n, d).num, den |-> Rat(n, d).den]

Digits == <<"0", "1", "2", "3", "4", "5", "6", "7", "8", "9">>

IsDigit(c) == \E d \in 1..10 : Digits[d] = c

DigitVal(c) == (CHOOSE d \in 1..10 : Digits[d] = c) - 1

RECURSIVE ParseDigits(_)
ParseDigits(s) ==
    IF s = <<>> THEN 0
    ELSE 10 * ParseDigits(SubSeq(s, 1, Len(s) - 1)) + DigitVal(s[Len(s)])

AllDigits(s) == s # <<>> /\ \A i \in 1..Len(s) : IsDigit(s[i])

DigitsOrEmpty(s) == \A i \in 1..Len(s) : IsDigit(s[i])

\* The vertical tab, character 11, as a one-character text.
VerticalTab == ""

\* isspace_ascii: the space and the characters 9 to 13.
IsBlank(c) == c \in {" ", "\t", "\n", VerticalTab, "\f", "\r"}

RECURSIVE StripLeft(_)
StripLeft(s) == IF s # <<>> /\ IsBlank(s[1]) THEN StripLeft(Tail(s)) ELSE s

RECURSIVE StripRight(_)
StripRight(s) ==
    IF s # <<>> /\ IsBlank(s[Len(s)]) THEN StripRight(SubSeq(s, 1, Len(s) - 1)) ELSE s

\* The letters of "infinity" in lower case.
Lower(c) ==
    CASE c = "I" -> "i" [] c = "N" -> "n" [] c = "F" -> "f"
      [] c = "T" -> "t" [] c = "Y" -> "y" [] OTHER -> c

LowerText(s) == [i \in 1..Len(s) |-> Lower(s[i])]

\* The first position of s that holds a character of set, or 0.
FirstIndex(s, set) ==
    IF \E i \in 1..Len(s) : s[i] \in set
    THEN CHOOSE i \in 1..Len(s) : s[i] \in set /\ \A j \in 1..(i - 1) : s[j] \notin set
    ELSE 0

HasSign(s) == s # <<>> /\ s[1] \in {"+", "-"}

SignOf(s) == IF s # <<>> /\ s[1] = "-" THEN -1 ELSE 1

Unsigned(s) == IF HasSign(s) THEN Tail(s) ELSE s

\* The part of an unsigned number before the exponent mark, and after it.
Mantissa(s) ==
    IF FirstIndex(s, {"e", "E"}) = 0 THEN s
    ELSE SubSeq(s, 1, FirstIndex(s, {"e", "E"}) - 1)

Exponent(s) ==
    IF FirstIndex(s, {"e", "E"}) = 0 THEN <<>>
    ELSE SubSeq(s, FirstIndex(s, {"e", "E"}) + 1, Len(s))

\* The digits of a mantissa before the decimal point, and after it.
IntPart(m) ==
    IF FirstIndex(m, {"."}) = 0 THEN m ELSE SubSeq(m, 1, FirstIndex(m, {"."}) - 1)

FracPart(m) ==
    IF FirstIndex(m, {"."}) = 0 THEN <<>> ELSE SubSeq(m, FirstIndex(m, {"."}) + 1, Len(m))

\* digits [. digits] or . digits, then an optional e or E, sign and digits.
IsDecimal(s) ==
    /\ DigitsOrEmpty(IntPart(Mantissa(s)))
    /\ DigitsOrEmpty(FracPart(Mantissa(s)))
    /\ Len(IntPart(Mantissa(s))) + Len(FracPart(Mantissa(s))) > 0
    /\ FirstIndex(s, {"e", "E"}) # 0 => AllDigits(Unsigned(Exponent(s)))

\* The value of an unsigned decimal, times sign.
DecimalValue(sign, s) ==
    LET m == Mantissa(s)
        digits == ParseDigits(IntPart(m) \o FracPart(m))
        exp == SignOf(Exponent(s)) * ParseDigits(Unsigned(Exponent(s))) - Len(FracPart(m))
    IN  IF exp >= 0 THEN Num(sign * digits * Pow(10, exp), 1)
        ELSE Num(sign * digits, Pow(10, 0 - exp))

\* pd.to_numeric(x, errors="coerce") on one text cell: between optional
\* white space, an optionally signed decimal with an optional exponent; else
\* "inf" or "infinity" in any case with an optional sign; any other text (the
\* empty text and "nan" too) becomes NaN.  The finite values of the model are
\* doubles.
ToNumeric(x) ==
    LET s == StripRight(StripLeft(x))
    IN  IF IsDecimal(Unsigned(s)) THEN DecimalValue(SignOf(s), Unsigned(s))
        ELSE IF LowerText(Unsigned(x)) \in {<<"i", "n", "f">>,
                                           <<"i", "n", "f", "i", "n", "i", "t", "y">>}
        THEN Inf(SignOf(x))
        ELSE NaN

\* The mask df["population"] >= 0 in place of > 0.
IsNotNegative(v) == ~v.nan /\ (v.inf = 1 \/ (v.inf = 0 /\ v.num >= 0))

\* The mask df["population"] > 0: a comparison with NaN is False.
IsPositive(v) == ~v.nan /\ (v.inf = 1 \/ (v.inf = 0 /\ v.num > 0))

RECURSIVE IntToText(_)
IntToText(n) ==
    IF n < 10 THEN <<Digits[n + 1]>>
    ELSE IntToText(n \div 10) \o <<Digits[(n % 10) + 1]>>

Pad3(n) == <<Digits[(n \div 100) + 1], Digits[((n \div 10) % 10) + 1], Digits[(n % 10) + 1]>>

\* f"{int(x):,}" for an integer x >= 0.
RECURSIVE FormatThousands(_)
FormatThousands(n) ==
    IF n < 1000 THEN IntToText(n)
    ELSE FormatThousands(n \div 1000) \o <<",">> \o Pad3(n % 1000)

\* s[-5:]
Last5(s) == IF Len(s) <= 5 THEN s ELSE SubSeq(s, Len(s) - 4, Len(s))

\* int(x) replaced by round(x): the nearest integer, a half going up.
RoundHalfUp(n, d) == (2 * n + d) \div (2 * d)

\* int(x) of the rational n/d (d > 0): truncation toward zero.
Trunc(n, d) == IF n >= 0 THEN n \div d ELSE 0 - ((0 - n) \div d)

(***************************************************************************)
(* Doubles.  For q = n/d in lowest terms, 0 < q <= 1, the double nearest   *)
(* to q is M / 2^k with 2^52 <= M < 2^53, and q minus that double is       *)
(* DoubleError(q) / (d * 2^k).                                             *)
(***************************************************************************)
\* The least j with n * 2^j >= d: k = 52 + j.
RECURSIVE BinaryShift(_, _)
BinaryShift(n, d) == IF n >= d THEN 0 ELSE 1 + BinaryShift(2 * n, d)

RECURSIVE PowMod(_, _, _)
PowMod(b, e, m) == IF e = 0 THEN 1 % m ELSE (b * PowMod(b, e - 1, m)) % m

\* Positive when the double is below q, negative when above, 0 when q is a
\* double.  (A remainder of exactly d/2 needs d to be a power of two,
\* and then the remainder is 0.)
DoubleError(q) ==
    LET r == (q.num * PowMod(2, 52 + BinaryShift(q.num, q.den), q.den)) % q.den
    IN  IF 2 * r < q.den THEN r ELSE r - q.den

\* The e with 2^e <= x < 2^(e+1), for an integer x >= 1.
RECURSIVE Log2Floor(_)
Log2Floor(x) == IF x < 2 THEN 0 ELSE 1 + Log2Floor(x \div 2)

IsPowerOfTwo(x) == x = Pow(2, Log2Floor(x))

\* a/b (b > 0) rounded to the nearest integer, a half going to the even one.
RoundHalfEven(a, b) ==
    LET lo == IF a >= 0 THEN a \div b ELSE 0 - (((0 - a) + b - 1) \div b)
        rem2 == 2 * (a - lo * b)
    IN  IF rem2 > b THEN lo + 1
        ELSE IF rem2 < b THEN lo
        ELSE IF lo % 2 = 0 THEN lo ELSE lo + 1

\* round(x, 4), in units of 1/10000, of the double x nearest to q, 0 <= q <= 1:
\* x correctly rounded to four decimals.  When q lies halfway between two
\* of them the side the double lies on decides; a double that is q itself
\* goes to the even one.
Round4(q) ==
    LET scaled == q.num * 10000
        lo == scaled \div q.den
        rem2 == 2 * (scaled % q.den)
    IN  IF rem2 > q.den THEN lo + 1
        ELSE IF rem2 < q.den THEN lo
        ELSE IF DoubleError(q) > 0 THEN lo
        ELSE IF DoubleError(q) < 0 THEN lo + 1
        ELSE IF lo % 2 = 0 THEN lo ELSE lo + 1

\* math.log10(x) is kept symbolic.
Log10(x) == [log10_of |-> x]

\* round(math.log10(x), 4) in units of 1/10000, tabulated for the populations
\* of the model (x = population + 1).
RoundLog10(x) ==
    CASE x = Rat(1, 1) -> 0
      [] x = Rat(3, 2) -> 1761
      [] x = Rat(10, 1) -> 10000
      [] x = Rat(3000001, 1) -> 64771
      [] x = Rat(10000001, 1) -> 70000

(***************************************************************************)
(* prepare_data.py: the colour ramp.                                       *)
(***************************************************************************)
\* The last branch with a slope of 120 in place of 130 for g.
BandCoefficientsSlip(band) ==
    CASE band = 0 -> << <<30, 0>>, <<60, 140>>, <<150, 105>> >>
      [] band = 1 -> << <<30, 100>>, <<200, 55>>, <<255, -100>> >>
      [] band = 2 -> << <<130, 125>>, <<255, -55>>, <<155, -105>> >>
      [] band = 3 -> << <<255, 0>>, <<200, -120>>, <<50, -50>> >>

\* The four branches of population_color: for r, g and b the pair <<c0, c1>>
\* of the channel's formula c0 + c1 * s (c0 - |c1| * s in the source when c1
\* is negative).
BandCoefficients(band) ==
    CASE band = 0 -> << <<30, 0>>, <<60, 140>>, <<150, 105>> >>
      [] band = 1 -> << <<30, 100>>, <<200, 55>>, <<255, -100>> >>
      [] band = 2 -> << <<130, 125>>, <<255, -55>>, <<155, -105>> >>
      [] band = 3 -> << <<255, 0>>, <<200, -130>>, <<50, -50>> >>

\* The branch of t, the double nearest to q = num/den: 0 for t < 0.25, 1 for
\* t < 0.5, 2 for t < 0.75, else 3.  (The double is on the side of a bound
\* that q is on.)
Band(q) ==
    IF 4 * q.num < q.den THEN 0
    ELSE IF 2 * q.num < q.den THEN 1
    ELSE IF 4 * q.num < 3 * q.den THEN 2
    ELSE 3

\* s = (t - band_start) / 0.25 at t = q, as the fraction LocalS(q) / q.den.
\* In doubles the subtraction and the division are exact, so s carries four
\* times the error of t.
LocalS(q) == 4 * q.num - Band(q) * q.den

\* Whether the doubles give a value below the integer v that c0 + c1 * s is
\* at t = q.  |c1| * s is the integer w plus an error of
\* -4 * |c1| * DoubleError(q) / (d * 2^k), rounded to the doubles around w;
\* adding it to c0, or taking it from c0, rounds once more to the doubles
\* around v.  Doubles are 2^(e-52) apart from 2^e up, and half that below 2^e.
FallsBelow(c0, c1, v, q) ==
    LET w == Abs(v - c0)
        err == DoubleError(q)
        e == Log2Floor(w)
        halfP == IF err > 0 /\ IsPowerOfTwo(w) THEN 1 ELSE 0
        steps == RoundHalfEven((0 - 4) * Abs(c1) * err * Pow(2, halfP),
                               q.den * Pow(2, BinaryShift(q.num, q.den) + e))
        signed == IF c1 > 0 THEN steps ELSE 0 - steps
        halfV == IF IsPowerOfTwo(v) THEN 1 ELSE 0
    IN  /\ signed < 0
        /\ 2 * Abs(steps) * Pow(2, e - halfP + 8) > Pow(2, Log2Floor(v) - halfV + 8)

\* One channel int(c0 + c1 * s): the formula truncated; where the formula is
\* an integer at t = q, that integer or, when the doubles fall below it, one
\* less.
Channel(c0, c1, q) ==
    LET n == c0 * q.den + c1 * LocalS(q)
    IN  IF n % q.den # 0 THEN Trunc(n, q.den)
        ELSE IF c1 = 0 \/ n = 0 \/ n = c0 * q.den THEN n \div q.den
        ELSE IF FallsBelow(c0, c1, n \div q.den, q) THEN (n \div q.den) - 1
        ELSE n \div q.den

population_color(q) ==
    LET co == BandCoefficients(Band(q))
    IN  <<Channel(co[1][1], co[1][2], q),
          Channel(co[2][1], co[2][2], q),
          Channel(co[3][1], co[3][2], q),
          200>>

(***************************************************************************)
(* prepare_data.py: the rank.                                              *)
(***************************************************************************)
\* A rank counted from zero: (rank - 1) / count.
RankPctZeroBased(pops, i) ==
    LET n == Len(pops)
        less == Cardinality({j \in 1..n : RatLess(pops[j], pops[i])})
        equal == Cardinality({j \in 1..n : pops[j] = pops[i]})
    IN  Rat(2 * less + equal - 1, 2 * n)

\* Series.rank(pct=True), method "average": the mean of the positions a
\* value's tie group occupies in the sorted order, divided by the count.
RankPct(pops, i) ==
    LET n == Len(pops)
        less == Cardinality({j \in 1..n : RatLess(pops[j], pops[i])})
        equal == Cardinality({j \in 1..n : pops[j] = pops[i]})
    IN  Rat(2 * less + equal + 1, 2 * n)

(***************************************************************************)
(* The upstream responses.                                                 *)
(***************************************************************************)
Columns == {"NAME", "B01003_001E", "state", "county"}

Sentinel == <<"-", "6", "6", "6", "6", "6", "6", "6", "6", "6">>

\* Data rows the Census response is drawn from, in response order.
RowPool == <<
    [NAME |-> "Los Angeles County, California",
     B01003_001E |-> <<"1", "0", "0", "0", "0", "0", "0", "0">>,
     state |-> <<"0", "6">>, county |-> <<"0", "3", "7">>],
    [NAME |-> "San Diego County, California",
     B01003_001E |-> <<"3", "0", "0", "0", "0", "0", "0">>,
     state |-> <<"0", "6">>, county |-> <<"0", "7", "3">>],
    [NAME |-> "Alpine County, California", B01003_001E |-> Sentinel,
     state |-> <<"0", "6">>, county |-> <<"0", "0", "3">>],
    [NAME |-> "Alpine County, California", B01003_001E |-> <<"0">>,
     state |-> <<"0", "6">>, county |-> <<"0", "0", "3">>],
    [NAME |-> "Alpine County, California", B01003_001E |-> <<"N", "/", "A">>,
     state |-> <<"0", "6">>, county |-> <<"0", "0", "3">>],
    [NAME |-> "Short codes", B01003_001E |-> <<"9">>,
     state |-> <<"6">>, county |-> <<"3", "7">>],
    [NAME |-> "Imperial County, California",
     B01003_001E |-> <<VerticalTab, "+", "3", "e", "6", " ">>,
     state |-> <<"0", "6">>, county |-> <<"0", "2", "5">>],
    [NAME |-> "Los Angeles County (second row)", B01003_001E |-> <<"9">>,
     state |-> <<"0", "6">>, county |-> <<"0", "3", "7">>],
    [NAME |-> "Alpine County, California", B01003_001E |-> <<"0", ".", "5">>,
     state |-> <<"0", "6">>, county |-> <<"0", "0", "3">>],
    [NAME |-> "Alpine County, California", B01003_001E |-> <<"i", "n", "f">>,
     state |-> <<"0", "6">>, county |-> <<"0", "0", "3">>] >>

\* Polygons the boundary collection is drawn from, in collection order: an
\* absent "id" or "GEO_ID" key is an absent field.
FeaturePool == <<
    [id |-> <<"0", "6", "0", "3", "7">>, geometry |-> "polygon-06037",
     properties |-> [STATE |-> <<"0", "6">>]],
    [geometry |-> "polygon-06073",
     properties |-> [GEO_ID |-> <<"0", "5", "0", "0", "0", "0", "0", "U", "S",
                                  "0", "6", "0", "7", "3">>]],
    [id |-> <<"0", "6", "0", "0", "3">>, geometry |-> "polygon-06003",
     properties |-> [STATE |-> <<"0", "6">>]],
    [id |-> <<"6", "3", "7">>, geometry |-> "polygon-637",
     properties |-> [STATE |-> <<"6">>]],
    [id |-> <<>>, geometry |-> "polygon-anonymous",
     properties |-> [STATE |-> <<"0", "6">>]] >>

\* The subsequences of pool that have at most max elements.
Choices(pool, max) ==
    LET picks == {S \in SUBSET (1..Len(pool)) : Cardinality(S) <= max}
    IN  {SelectSeq([i \in 1..Len(pool) |-> IF i \in S THEN <<pool[i]>> ELSE <<>>],
                   LAMBDA x : x # <<>>) : S \in picks}

Unwrap(seq) == [i \in 1..Len(seq) |-> seq[i][1]]

\* A row as the response carries it under header: the cells of its columns.
Cells(row, header) == [c \in header |-> row[c]]

\* Headers that lack a column the script reads.
PartialHeaders == {Columns \ {"NAME"}, Columns \ {"state"}, Columns \ {"B01003_001E"}}

StatsResponses ==
    {[header |-> Columns, rows |-> Unwrap(c)] : c \in Choices(RowPool, MaxRows)}
    \cup
    {[header |-> h, rows |-> [i \in 1..Len(c) |-> Cells(c[i][1], h)]] :
        h \in PartialHeaders, c \in Choices(RowPool, 1)}

BoundaryResponses ==
    {[features |-> Unwrap(c)] : c \in Choices(FeaturePool, MaxFeatures)}

\* How one HTTP fetch ends: requests.get raises, raise_for_status raises,
\* resp.json() or the first subscript of the body raises, or the body is served.
FetchOutcomes == {"ok", "network_error", "http_error", "malformed"}

(***************************************************************************)
(* prepare_data.py: the sections of the script as functions of their       *)
(* inputs.                                                                 *)
(***************************************************************************)
\* The mapping r with the keys of ext set to ext's values (dict assignment).
Extend(r, ext) ==
    [c \in DOMAIN r \cup DOMAIN ext |-> IF c \in DOMAIN ext THEN ext[c] ELSE r[c]]

\* Lines 50-54: df["FIPS"] and df["population"] of one row.
WithFips(row) ==
    Extend(row, [FIPS |-> row.state \o row.county,
                 population |-> ToNumeric(row.B01003_001E)])

\* Lines 48-55: the frame with FIPS and population, rows of a population
\* that is not > 0 dropped.
CleanRows(rows) ==
    SelectSeq([i \in 1..Len(rows) |-> WithFips(rows[i])],
              LAMBDA r : IsPositive(r.population))

\* Line 70: int(x) of an infinite population raises OverflowError.
Formattable(rows) == \A i \in 1..Len(rows) : rows[i].population.inf = 0

\* Lines 67-99: log_pop, population_formatted, quantile and fill_color, for
\* finite populations.
DeriveRows(rows) ==
    LET pops == [i \in 1..Len(rows) |-> rows[i].population]
    IN  [i \in 1..Len(rows) |->
            Extend(rows[i],
                   [log_pop |-> Log10(Rat(pops[i].num + pops[i].den, pops[i].den)),
                    population_formatted |->
                        FormatThousands(Trunc(pops[i].num, pops[i].den)),
                    quantile |-> RankPct(pops, i),
                    fill_color |-> population_color(RankPct(pops, i))])]

\* Lines 109-116: the entry of one row.
LookupEntry(row) ==
    [population |-> Trunc(row.population.num, row.population.den),
     population_formatted |-> row.population_formatted,
     log_pop |-> RoundLog10(row.log_pop.log10_of),
     quantile |-> Round4(row.quantile),
     fill_color |-> row.fill_color,
     county_name |-> row.NAME]

\* Lines 107-116: a later row replaces the entry of an earlier row with the
\* same FIPS.
BuildLookup(rows) ==
    [k \in {rows[i].FIPS : i \in 1..Len(rows)} |->
        LookupEntry(rows[CHOOSE i \in 1..Len(rows) :
                            /\ rows[i].FIPS = k
                            /\ \A j \in 1..Len(rows) : rows[j].FIPS = k => j <= i])]

\* Line 121: feature.get("id") or feature["properties"].get("GEO_ID", "")[-5:]
FeatureFips(f) ==
    IF "id" \in DOMAIN f /\ f.id # <<>> THEN f.id
    ELSE Last5(IF "GEO_ID" \in DOMAIN f.properties THEN f.properties.GEO_ID ELSE <<>>)

\* The fips property taken from the direct id alone.
InjectIdOnly(f, lookup) ==
    [f EXCEPT !.properties =
        Extend(f.properties,
               Extend(lookup[FeatureFips(f)],
                      [fips |-> IF "id" \in DOMAIN f THEN f.id ELSE <<>>]))]

\* Lines 124-130: the properties written into a matched feature.
Inject(f, lookup) ==
    [f EXCEPT !.properties =
        Extend(f.properties,
               Extend(lookup[FeatureFips(f)] , [fips |-> FeatureFips(f)]))]

\* A join that keeps the unmatched polygons as they came.
MatchedFeaturesKeepAll(features, lookup) ==
    [i \in 1..Len(features) |->
        IF FeatureFips(features[i]) \in DOMAIN lookup
        THEN Inject(features[i], lookup) ELSE features[i]]

\* Lines 119-133: the features whose identifier is a key of the lookup.
MatchedFeatures(features, lookup) ==
    LET kept == SelectSeq(features, LAMBDA f : FeatureFips(f) \in DOMAIN lookup)
    IN  [i \in 1..Len(kept) |-> Inject(kept[i], lookup)]

\* Line 146: the columns of the flat table.
CsvColumns == {"FIPS", "NAME", "population", "population_formatted", "log_pop", "quantile"}

CsvRows(rows) == [i \in 1..Len(rows) |-> [c \in CsvColumns |-> rows[i][c]]]

\* A file: absent, opened for writing and not yet written to the end, or
\* complete with its content.
Absent == [exists |-> FALSE, complete |-> FALSE]
Torn == [exists |-> TRUE, complete |-> FALSE]
File(content) == [exists |-> TRUE, complete |-> TRUE, content |-> content]

\* What an earlier release of the two sources left on disk: Alpine County had
\* a population then.
OldBoundary == [features |-> <<FeaturePool[3]>>]
OldStats ==
    [header |-> Columns,
     rows |-> <<[NAME |-> "Alpine County, California", B01003_001E |-> <<"9">>,
                 state |-> <<"0", "6">>, county |-> <<"0", "0", "3">>]>>]
OldGeojson ==
    File(MatchedFeatures(OldBoundary.features,
                         BuildLookup(DeriveRows(CleanRows(OldStats.rows)))))
OldCsv == File(CsvRows(DeriveRows(CleanRows(OldStats.rows))))

(***************************************************************************)
(* prepare_data.py: the script, one action per section.                    *)
(***************************************************************************)
NoRaw == [header |-> {}, rows |-> <<>>]

Files == [geojson |-> geojsonFile, csv |-> csvFile]

\* An uncaught exception ends the process; the files stay as they are.
Abort ==
    /\ pc' = "aborted"
    /\ UNCHANGED <<runs, counties_geojson, census_raw, df, value_lookup,
                   geojsonFile, csvFile, prevRun>>

\* python prepare_data.py: a new process (lines 1-20).
StartRun ==
    /\ pc \in {"idle", "done", "aborted"}
    /\ runs < MaxRuns
    /\ pc' = "start"
    /\ runs' = runs + 1
    /\ counties_geojson' = <<>>
    /\ census_raw' = NoRaw
    /\ df' = <<>>
    /\ value_lookup' = <<>>
    /\ prevRun' = [atStart |-> Files,
                   completed |-> IF pc = "done" THEN [done |-> TRUE, files |-> Files]
                                 ELSE prevRun.completed]
    /\ UNCHANGED <<geojsonFile, csvFile>>
    /\ UNCHANGED <<upstreamVars, appVars, colorVars>>

\* Lines 25-28.
FetchBoundary ==
    /\ pc = "start"
    /\ \E outcome \in FetchOutcomes :
          IF outcome = "ok"
          THEN /\ counties_geojson' = boundaryUpstream.features
               /\ pc' = "fetched_boundary"
               /\ UNCHANGED <<runs, census_raw, df, value_lookup,
                              geojsonFile, csvFile, prevRun>>
          ELSE Abort
    /\ UNCHANGED <<upstreamVars, appVars, colorVars>>

\* Lines 41-43.
FetchStats ==
    /\ pc = "fetched_boundary"
    /\ \E outcome \in FetchOutcomes :
          IF outcome = "ok"
          THEN /\ census_raw' = statsUpstream
               /\ pc' = "fetched_stats"
               /\ UNCHANGED <<runs, counties_geojson, df, value_lookup,
                              geojsonFile, csvFile, prevRun>>
          ELSE Abort
    /\ UNCHANGED <<upstreamVars, appVars, colorVars>>

\* Lines 46-59: a column the script reads and the header lacks is a KeyError.
Clean ==
    /\ pc = "fetched_stats"
    /\ IF {"state", "county", "B01003_001E"} \subseteq census_raw.header
       THEN /\ df' = CleanRows(census_raw.rows)
            /\ pc' = "cleaned"
            /\ UNCHANGED <<runs, counties_geojson, census_raw, value_lookup,
                           geojsonFile, csvFile, prevRun>>
       ELSE Abort
    /\ UNCHANGED <<upstreamVars, appVars, colorVars>>

\* Lines 64-99.
Derive ==
    /\ pc = "cleaned"
    /\ IF Formattable(df)
       THEN /\ df' = DeriveRows(df)
            /\ pc' = "derived"
            /\ UNCHANGED <<runs, counties_geojson, census_raw, value_lookup,
                           geojsonFile, csvFile, prevRun>>
       ELSE Abort
    /\ UNCHANGED <<upstreamVars, appVars, colorVars>>

\* Lines 104-134: row["NAME"] is a KeyError when the frame has a row and no
\* NAME column.
Join ==
    /\ pc = "derived"
    /\ IF df = <<>> \/ "NAME" \in census_raw.header
       THEN /\ value_lookup' = BuildLookup(df)
            /\ counties_geojson' = MatchedFeatures(counties_geojson, BuildLookup(df))
            /\ pc' = "joined"
            /\ UNCHANGED <<runs, census_raw, df, geojsonFile, csvFile, prevRun>>
       ELSE Abort
    /\ UNCHANGED <<upstreamVars, appVars, colorVars>>

\* The file json.dump leaves at geojson_path, opened with mode "w".
WrittenGeojson(old, features) == File(features)

\* Lines 137-140: open(geojson_path, "w") creates the file or empties the
\* one that is there; until json.dump has written its last chunk a reader
\* finds a text that is no JSON document.
TruncateGeojson ==
    /\ pc = "joined"
    /\ geojsonFile' = Torn
    /\ pc' = "writing_geojson"
    /\ UNCHANGED <<runs, counties_geojson, census_raw, df, value_lookup, csvFile, prevRun>>
    /\ UNCHANGED <<upstreamVars, appVars, colorVars>>

\* Lines 141-143: json.dump has written the collection and the file is closed.
SaveGeojson ==
    /\ pc = "writing_geojson"
    /\ geojsonFile' = WrittenGeojson(geojsonFile, counties_geojson)
    /\ pc' = "saved_geojson"
    /\ UNCHANGED <<runs, counties_geojson, census_raw, df, value_lookup, csvFile, prevRun>>
    /\ UNCHANGED <<upstreamVars, appVars, colorVars>>

\* to_csv with mode="a": the rows are appended to the file that is there.
WrittenCsvAppended(old, rows) ==
    IF old.complete THEN File(old.content \o CsvRows(rows)) ELSE File(CsvRows(rows))

\* The file to_csv leaves at csv_path.
WrittenCsv(old, rows) == File(CsvRows(rows))

\* Lines 145-154: selecting a column the frame lacks is a KeyError.
SaveCsv ==
    /\ pc = "saved_geojson"
    /\ IF "NAME" \in census_raw.header
       THEN /\ csvFile' = WrittenCsv(csvFile, df)
            /\ pc' = "done"
            /\ UNCHANGED <<runs, counties_geojson, census_raw, df, value_lookup,
                           geojsonFile, prevRun>>
       ELSE Abort
    /\ UNCHANGED <<upstreamVars, appVars, colorVars>>

(***************************************************************************)
(* app.py: the Streamlit script.  A session runs the script when it opens  *)
(* and again on every widget interaction.                                  *)
(***************************************************************************)
NoCache == [loaded |-> FALSE]

Sessions == {1, 2}

NoSession == [state |-> "none", reads |-> 0, reruns |-> 0]

\* load_geojson with no decorator: every call opens the file.
load_geojson_uncached(c, file) ==
    IF file.complete
    THEN [raised |-> FALSE, read |-> TRUE, value |-> file.content, cache |-> c]
    ELSE [raised |-> TRUE, read |-> file.exists, cache |-> c]

\* Lines 27-30: load_geojson under @st.cache_data.  The entry is kept per
\* function and arguments for the server process; a call that finds it
\* returns its value and does not run the body.  A body that raises stores
\* nothing: open raises FileNotFoundError when the file is missing, json.load
\* raises JSONDecodeError on a file that is being written.
load_geojson(c, file) ==
    IF c.loaded
    THEN [raised |-> FALSE, read |-> FALSE, value |-> c.value, cache |-> c]
    ELSE IF file.complete
    THEN [raised |-> FALSE, read |-> TRUE, value |-> file.content,
          cache |-> [loaded |-> TRUE, value |-> file.content]]
    ELSE [raised |-> TRUE, read |-> file.exists, cache |-> c]

\* One run of the script for session s (lines 11-145): the layer is built
\* from what load_geojson returned.
ScriptRun(s, reruns) ==
    LET got == load_geojson(cache, geojsonFile)
    IN  /\ cache' = got.cache
        /\ session' = [session EXCEPT ![s] =
              IF got.raised
              THEN [state |-> "failed",
                    reads |-> session[s].reads + (IF got.read THEN 1 ELSE 0),
                    reruns |-> reruns]
              ELSE [state |-> "rendered",
                    reads |-> session[s].reads + (IF got.read THEN 1 ELSE 0),
                    reruns |-> reruns,
                    geojson |-> got.value,
                    onDisk |-> geojsonFile]]

\* A browser connects.
OpenSession(s) ==
    /\ session[s].state = "none"
    /\ ScriptRun(s, 0)
    /\ UNCHANGED <<upstreamVars, prepVars, colorVars>>

\* A slider, the select box or the toggle changes: the script runs again.
Interact(s) ==
    /\ session[s].state = "rendered"
    /\ session[s].reruns < MaxReruns
    /\ ScriptRun(s, session[s].reruns + 1)
    /\ UNCHANGED <<upstreamVars, prepVars, colorVars>>

\* The browser disconnects: the session's state is dropped.
CloseSession(s) ==
    /\ session[s].state \in {"rendered", "failed"}
    /\ session' = [session EXCEPT ![s] =
          [state |-> "closed", reads |-> session[s].reads, reruns |-> session[s].reruns]]
    /\ UNCHANGED cache
    /\ UNCHANGED <<upstreamVars, prepVars, colorVars>>

\* The state of the application and of the ramp sampler when neither runs.
AppIdle == cache = NoCache /\ session = [s \in Sessions |-> NoSession]
ColorIdle == t = [num |-> 0, den |-> 1] /\ color = <<>>

PrepInit ==
    /\ pc = "idle"
    /\ runs = 0
    /\ counties_geojson = <<>>
    /\ census_raw = NoRaw
    /\ df = <<>>
    /\ value_lookup = <<>>
    /\ \/ geojsonFile = Absent /\ csvFile = Absent
       \/ geojsonFile = OldGeojson /\ csvFile = OldCsv
    /\ prevRun = [atStart |-> Files, completed |-> [done |-> FALSE]]

Init ==
    /\ boundaryUpstream \in BoundaryResponses
    /\ statsUpstream \in StatsResponses
    /\ PrepInit
    /\ AppIdle
    /\ ColorIdle

Next ==
    \/ StartRun
    \/ FetchBoundary
    \/ FetchStats
    \/ Clean
    \/ Derive
    \/ Join
    \/ TruncateGeojson
    \/ SaveGeojson
    \/ SaveCsv

Spec == Init /\ [][Next]_vars

(***************************************************************************)
(* Properties of the preparation script (specification Spec).              *)
(***************************************************************************)
GeojsonSaved == pc \in {"saved_geojson", "done"}

OutFeatures == geojsonFile.content

\* Row k of the statistics response has a numeric, strictly positive value.
ValidRow(k) ==
    LET v == ToNumeric(statsUpstream.rows[k].B01003_001E)
    IN  ~v.nan /\ (v.inf = 1 \/ (v.inf = 0 /\ v.num > 0))

\* n is the value of row k with its fraction cut off.
IsWholePartOfRow(n, k) ==
    LET v == ToNumeric(statsUpstream.rows[k].B01003_001E)
    IN  v.inf = 0 /\ n * v.den <= v.num /\ v.num < (n + 1) * v.den

RowFips(k) == statsUpstream.rows[k].state \o statsUpstream.rows[k].county

RowIndexes == 1..Len(statsUpstream.rows)

\* C1: every feature of the written geometry file is an input polygon whose
\* identifier is that of a statistics row with a numeric, strictly positive
\* value (the whole part of which it carries as its population), and an input
\* polygon whose identifier has no such row is not in the file.
C1_OutputIsMatchedAndValid ==
    GeojsonSaved =>
        /\ \A i \in 1..Len(OutFeatures) :
              /\ "fips" \in DOMAIN OutFeatures[i].properties
              /\ \E j \in 1..Len(boundaryUpstream.features) :
                    /\ boundaryUpstream.features[j].geometry = OutFeatures[i].geometry
                    /\ FeatureFips(boundaryUpstream.features[j]) = FeatureFips(OutFeatures[i])
              /\ \E k \in RowIndexes :
                    /\ ValidRow(k)
                    /\ RowFips(k) = FeatureFips(OutFeatures[i])
                    /\ IsWholePartOfRow(OutFeatures[i].properties.population, k)
        /\ \A j \in 1..Len(boundaryUpstream.features) :
              (~\E k \in RowIndexes :
                    ValidRow(k) /\ RowFips(k) = FeatureFips(boundaryUpstream.features[j]))
              => ~\E i \in 1..Len(OutFeatures) :
                    OutFeatures[i].geometry = boundaryUpstream.features[j].geometry

\* A completed run that kept a matched polygon and dropped the polygon of a
\* row holding the sentinel.
C1_Witness ==
    /\ pc = "done"
    /\ Len(OutFeatures) = 1
    /\ Len(boundaryUpstream.features) = 2
    /\ \E j \in 1..Len(boundaryUpstream.features), k \in RowIndexes :
          /\ statsUpstream.rows[k].B01003_001E = Sentinel
          /\ RowFips(k) = FeatureFips(boundaryUpstream.features[j])

IsFiveDigit(s) == Len(s) = 5 /\ AllDigits(s)

\* C2 as stated: every feature of the written geometry file carries a
\* 5-character identifier of digits.
C2_EveryIdentifierHasFiveDigits ==
    GeojsonSaved =>
        \A i \in 1..Len(OutFeatures) : IsFiveDigit(OutFeatures[i].properties.fips)

\* C2 amended: the identifier a feature carries is its polygon's direct id, or
\* the last five characters of GEO_ID, and it is the state code followed by
\* the county code of a valid statistics row; it has five digits when those
\* codes have two and three.
C2_IdentifierIsStatePlusCounty ==
    GeojsonSaved =>
        \A i \in 1..Len(OutFeatures) :
            /\ OutFeatures[i].properties.fips = FeatureFips(OutFeatures[i])
            /\ \E k \in RowIndexes :
                  /\ ValidRow(k)
                  /\ OutFeatures[i].properties.fips = RowFips(k)
                  /\ (/\ Len(statsUpstream.rows[k].state) = 2
                      /\ Len(statsUpstream.rows[k].county) = 3
                      /\ AllDigits(statsUpstream.rows[k].state)
                      /\ AllDigits(statsUpstream.rows[k].county))
                     => IsFiveDigit(OutFeatures[i].properties.fips)

\* A completed run with one feature identified by its id and one by GEO_ID.
C2_Witness ==
    /\ pc = "done"
    /\ Len(OutFeatures) = 2
    /\ "id" \in DOMAIN OutFeatures[1]
    /\ "id" \notin DOMAIN OutFeatures[2]
    /\ IsFiveDigit(OutFeatures[2].properties.fips)

Derived == pc \in {"derived", "joined", "saved_geojson", "done"}

\* Row i of the frame is the row the lookup keeps for its identifier.
InLookup(i) == \A j \in 1..Len(df) : df[j].FIPS = df[i].FIPS => j <= i

\* C4: the rank of every row of the frame lies in (0, 1]; a row with no more
\* population has no higher rank, equal populations have equal rank, and the
\* untied largest population has rank 1.  The rank rounded into the lookup is
\* monotonic in the population of the rows the lookup keeps.
C4_RankInUnitIntervalAndMonotonic ==
    Derived =>
        /\ \A i \in 1..Len(df) :
              /\ df[i].quantile.num > 0
              /\ df[i].quantile.num <= df[i].quantile.den
              /\ (\A j \in 1..Len(df) :
                    j # i => RatLess(df[j].population, df[i].population))
                 => df[i].quantile.num = df[i].quantile.den
        /\ \A i, j \in 1..Len(df) :
              /\ ~RatLess(df[j].population, df[i].population)
                 => df[i].quantile.num * df[j].quantile.den
                       <= df[j].quantile.num * df[i].quantile.den
              /\ df[i].population = df[j].population => df[i].quantile = df[j].quantile
        /\ pc # "derived" =>
              \A i, j \in 1..Len(df) :
                  (/\ InLookup(i) /\ InLookup(j)
                   /\ ~RatLess(df[j].population, df[i].population))
                  => value_lookup[df[i].FIPS].quantile <= value_lookup[df[j].FIPS].quantile

\* A frame of three rows: two tied populations and a larger one.
C4_Witness ==
    /\ pc = "done"
    /\ Len(df) = 3
    /\ \E i, j, k \in 1..3 :
          /\ i # j
          /\ df[i].population = df[j].population
          /\ RatLess(df[i].population, df[k].population)
          /\ df[k].quantile.num = df[k].quantile.den
          /\ df[i].quantile.num * 2 = df[i].quantile.den

\* C5: a run that aborts leaves both files as they were when it started.
C5_AbortLeavesFilesUntouched ==
    pc = "aborted" => Files = prevRun.atStart

CsvFipsSet == {csvFile.content[i].FIPS : i \in 1..Len(csvFile.content)}

OutFipsSet == {OutFeatures[i].properties.fips : i \in 1..Len(OutFeatures)}

\* C8 as stated: after a completed run the identifiers of the flat table are
\* those of the features of the geometry file.
C8_TableIdentifiersEqualFeatureIdentifiers ==
    pc = "done" => CsvFipsSet = OutFipsSet

ValidRowIndexes == {k \in RowIndexes : ValidRow(k)}

\* C8 amended: after a completed run the flat table has one row per valid
\* statistics row, in response order, with or without a polygon, and the
\* identifier of every feature of the geometry file is in the table.
C8_TableHasEveryValidRow ==
    pc = "done" =>
        /\ Len(csvFile.content) = Cardinality(ValidRowIndexes)
        /\ \A i \in 1..Len(csvFile.content) :
              \E k \in ValidRowIndexes :
                  /\ Cardinality({m \in ValidRowIndexes : m <= k}) = i
                  /\ csvFile.content[i].FIPS = RowFips(k)
                  /\ csvFile.content[i].NAME = statsUpstream.rows[k].NAME
        /\ OutFipsSet \subseteq CsvFipsSet

\* A completed run whose table holds a row that has no polygon.
C8_Witness ==
    /\ pc = "done"
    /\ Len(OutFeatures) > 0
    /\ CsvFipsSet \ OutFipsSet # {}

\* C9: a completed run leaves the two files as the last completed run on the
\* same responses left them, and what it leaves is what it computed: the
\* joined features in the geometry file, a row per row of the frame in the
\* table.
C9_RerunWritesTheSameFiles ==
    pc = "done" =>
        /\ prevRun.completed.done => Files = prevRun.completed.files
        /\ geojsonFile = File(counties_geojson)
        /\ csvFile.complete
        /\ Len(csvFile.content) = Len(df)
        /\ \A i \in 1..Len(df) :
              \A c \in CsvColumns : csvFile.content[i][c] = df[i][c]

\* A second completed run over files that an earlier release had left.
C9_Witness ==
    /\ pc = "done"
    /\ prevRun.completed.done
    /\ prevRun.atStart = prevRun.completed.files
    /\ Len(OutFeatures) > 0
    /\ Len(csvFile.content) > Len(OutFeatures)

(***************************************************************************)
(* The colour ramp on its own (specification SpecColor).                   *)
(***************************************************************************)
Grid == 2 ^ GridBits

\* population_color(t) is called.
ApplyColor ==
    /\ color = <<>>
    /\ color' = population_color(t)
    /\ UNCHANGED <<t, upstreamVars, prepVars, appVars>>

\* The values the ramp is sampled at: the grid, and the ranks that frames of
\* at most SampleRows rows have.
RampSamples ==
    {Rat(k, Grid) : k \in 0..Grid}
    \cup UNION {{Rat(k, 2 * n) : k \in 2..(2 * n)} : n \in 1..SampleRows}

InitColor ==
    /\ t \in RampSamples
    /\ color = <<>>
    /\ boundaryUpstream = [features |-> <<>>]
    /\ statsUpstream = [header |-> Columns, rows |-> <<>>]
    /\ PrepInit
    /\ geojsonFile = Absent
    /\ AppIdle

NextColor == ApplyColor

SpecColor == InitColor /\ [][NextColor]_vars

\* C3: the ramp returns the five documented colours at t = 0, 0.25, 0.5, 0.75
\* and 1, a boundary taking the formula of the band above it, which starts
\* where the formula of the band below ends; alpha is 200 for every t.
C3_RampBoundaryColours ==
    color # <<>> =>
        /\ color[4] = 200
        /\ t.num = 0 => color = <<30, 60, 150, 200>>
        /\ 4 * t.num = t.den => color = <<30, 200, 255, 200>>
        /\ 2 * t.num = t.den => color = <<130, 255, 155, 200>>
        /\ 4 * t.num = 3 * t.den => color = <<255, 200, 50, 200>>
        /\ t.num = t.den => color = <<255, 70, 0, 200>>
        /\ \A band \in 0..2 : \A ch \in 1..3 :
              BandCoefficients(band)[ch][1] + BandCoefficients(band)[ch][2]
                  = BandCoefficients(band + 1)[ch][1]

\* The ramp was applied at t = 1.0, the closed end of the last band.
C3_Witness == color = <<255, 70, 0, 200>> /\ t.num = t.den

\* The numerator over t.den of channel ch's linear formula at t.
ExactChannel(ch) ==
    LET co == BandCoefficients(Band(t))[ch]
    IN  co[1] * t.den + co[2] * LocalS(t)

\* C10 as stated: every channel is the nearest integer to its band's linear
\* formula.
C10_ChannelsRoundedToNearest ==
    color # <<>> =>
        \A ch \in 1..3 :
            /\ 2 * (color[ch] * t.den - ExactChannel(ch)) <= t.den
            /\ 2 * (ExactChannel(ch) - color[ch] * t.den) <= t.den

\* C10 amended: every channel is its band's linear formula cut down to an
\* integer, never rounded up: the largest integer that is not above the
\* formula or, where the formula is an integer, that integer or the one below.
C10_ChannelsTruncated ==
    color # <<>> =>
        \A ch \in 1..3 :
            \/ /\ color[ch] * t.den <= ExactChannel(ch)
               /\ ExactChannel(ch) < (color[ch] + 1) * t.den
            \/ /\ ExactChannel(ch) % t.den = 0
               /\ (color[ch] + 1) * t.den = ExactChannel(ch)

\* The ramp was applied at a rank where one channel's formula has a fractional
\* part above one half and another channel's formula is an integer that the
\* channel stays below.
C10_Witness ==
    /\ color # <<>>
    /\ \E ch \in 1..3 : 2 * (ExactChannel(ch) % t.den) > t.den
    /\ \E ch \in 1..3 :
          ExactChannel(ch) % t.den = 0 /\ (color[ch] + 1) * t.den = ExactChannel(ch)

(***************************************************************************)
(* The application beside the preparation script (specification SpecApp).  *)
(***************************************************************************)
InitApp ==
    /\ boundaryUpstream = [features |-> <<FeaturePool[1]>>]
    /\ statsUpstream \in {[header |-> Columns, rows |-> <<RowPool[1]>>],
                          [header |-> Columns, rows |-> <<RowPool[1], RowPool[2]>>]}
    /\ PrepInit
    /\ AppIdle
    /\ ColorIdle

NextApp ==
    \/ Next
    \/ \E s \in Sessions : OpenSession(s)
    \/ \E s \in Sessions : Interact(s)
    \/ \E s \in Sessions : CloseSession(s)

SpecApp == InitApp /\ [][NextApp]_vars

Rendered(s) == session[s].state = "rendered"

\* C6: a session reads the file at most once, and a script run of a session
\* that has rendered does not read it.
C6_FileReadAtMostOncePerSession ==
    /\ [](\A s \in Sessions : session[s].reads <= 1)
    /\ [][\A s \in Sessions :
            Rendered(s) /\ session'[s].state = "rendered"
            => session'[s].reads = session[s].reads]_vars

\* A session that read the file once and has used up its interactions.
C6_Witness ==
    \E s \in Sessions :
        Rendered(s) /\ session[s].reads = 1 /\ session[s].reruns = MaxReruns

\* C7 as stated: a session renders what it loaded from the file itself, the
\* file as it was on disk when the session ran the script.
C7_SessionRendersItsOwnLoad ==
    \A s \in Sessions :
        Rendered(s) =>
            session[s].reads = 1 /\ session[s].onDisk = File(session[s].geojson)

\* C7 amended: the loaded value is kept once for the server process and
\* shared by the sessions: every session renders the value of the one entry,
\* which no later write of the file and no closing of a session changes.
C7_SessionsShareTheProcessCache ==
    /\ [](\A s \in Sessions :
            Rendered(s) => cache.loaded /\ session[s].geojson = cache.value)
    /\ [][cache.loaded => cache' = cache]_vars

\* A session that opened after the file was overwritten, read nothing and
\* renders what an earlier session had loaded.
C7_Witness ==
    \E s \in Sessions :
        /\ Rendered(s)
        /\ session[s].reads = 0
        /\ geojsonFile.complete
        /\ geojsonFile # File(session[s].geojson)
        /\ \E o \in Sessions : session[o].state = "closed" /\ session[o].reads = 1

====
